---- MODULE Spec2Model ----
(***************************************************************************)
(* envox: KEY=VALUE text (or a flat map) parsed into bindings, with        *)
(* per-line errors, optional variable expansion and an optional schema.    *)
(*                                                                         *)
(* A string is a sequence of one-character strings; a fixed message text   *)
(* of the program is a single element of such a sequence, so a message     *)
(* built by concatenation is the concatenation of its parts.               *)
(***************************************************************************)
EXTENDS Integers, Sequences, FiniteSets, TLC

VARIABLES source, options, pc, index, variables, errors, envMap, result,
          validateCalls, validateArg, validated, fnIn, fnOut

vars == <<source, options, pc, index, variables, errors, envMap, result,
          validateCalls, validateArg, validated, fnIn, fnOut>>

----------------------------------------------------------------------------
(* Character classes of the regular expressions and of String.trim *)

Upper == {"A","B","C","D","E","F","G","H","I","J","K","L","M",
          "N","O","P","Q","R","S","T","U","V","W","X","Y","Z"}
Lower == {"a","b","c","d","e","f","g","h","i","j","k","l","m",
          "n","o","p","q","r","s","t","u","v","w","x","y","z"}
Digit == {"0","1","2","3","4","5","6","7","8","9"}
WhiteSpace == {" ", "\t", "\r", "\n"}

IsKeyStart(c) == c \in Upper \cup Lower \cup {"_"}
IsKeyChar(c) == c \in Upper \cup Lower \cup Digit \cup {"_"}
IsAlnum(c) == c \in Upper \cup Lower \cup Digit

----------------------------------------------------------------------------
(* String primitives of the host language *)

RECURSIVE trimStart(_)
trimStart(s) ==
  IF s # <<>> /\ Head(s) \in WhiteSpace THEN trimStart(Tail(s)) ELSE s

RECURSIVE trimEnd(_)
trimEnd(s) ==
  IF s # <<>> /\ s[Len(s)] \in WhiteSpace
  THEN trimEnd(SubSeq(s, 1, Len(s) - 1)) ELSE s

trim(s) == trimEnd(trimStart(s))

startsWith(s, p) == Len(s) >= Len(p) /\ SubSeq(s, 1, Len(p)) = p
endsWith(s, p) ==
  Len(s) >= Len(p) /\ SubSeq(s, Len(s) - Len(p) + 1, Len(s)) = p

(* 0-based position of the first c in s, -1 when absent *)
indexOf(s, c) ==
  IF \E i \in 1..Len(s) : s[i] = c
  THEN (CHOOSE i \in 1..Len(s) : s[i] = c /\ \A j \in 1..(i - 1) : s[j] # c) - 1
  ELSE -1

(* s.substring(from, to) and s.substring(from), 0-based, to exclusive *)
substring(s, from, to) == SubSeq(s, from + 1, to)
substringFrom(s, from) == SubSeq(s, from + 1, Len(s))

(* s.slice(1, -1) *)
sliceInner(s) == SubSeq(s, 2, Len(s) - 1)

(* s.replace(/ab/g, r) for a two-character pattern <<a, b>>: left to right, *)
(* non-overlapping, the replacement text is not scanned again               *)
RECURSIVE replacePair(_, _, _, _)
replacePair(s, a, b, r) ==
  IF Len(s) < 2 THEN s
  ELSE IF s[1] = a /\ s[2] = b
       THEN r \o replacePair(SubSeq(s, 3, Len(s)), a, b, r)
       ELSE <<s[1]>> \o replacePair(Tail(s), a, b, r)

----------------------------------------------------------------------------
(* The values of the program's constants *)

BS == "\\"
DQ == "\""
SQ == "'"
exportPrefix == <<"e","x","p","o","r","t"," ">>
MissingEquals == <<"Missing equals sign">>
InvalidKeyPrefix == <<"Invalid environment variable key: ">>

(* REGEX.VALID_KEY.test(key) && !key.includes(' ') *)
isValidKey(key) ==
  /\ key # <<>>
  /\ IsKeyStart(key[1])
  /\ \A i \in 2..Len(key) : IsKeyChar(key[i])
  /\ \A i \in 1..Len(key) : key[i] # " "

----------------------------------------------------------------------------
(* Variable expansion *)

(* The first index j >= from with s[j] = c, 0 when there is none *)
firstFrom(s, c, from) ==
  IF \E j \in from..Len(s) : s[j] = c
  THEN CHOOSE j \in from..Len(s) :
         s[j] = c /\ \A k \in from..(j - 1) : s[k] # c
  ELSE 0

(* End of the name of a bare reference taken greedily over [A-Za-z0-9_] *)
simpleNameEndGreedy(s) ==
  CHOOSE e \in 2..Len(s) :
    /\ (e = Len(s) \/ ~IsKeyChar(s[e + 1]))
    /\ \A k \in 2..(e - 1) : IsKeyChar(s[k + 1])

(* End of the name of a bare reference whose name starts at s[2]: the lazy *)
(* quantifier stops at the first position followed by a character outside  *)
(* [A-Za-z0-9] or by the end of the string                                 *)
simpleNameEnd(s) ==
  CHOOSE e \in 2..Len(s) :
    /\ (e = Len(s) \/ ~IsAlnum(s[e + 1]))
    /\ \A k \in 2..(e - 1) : IsAlnum(s[k + 1])

(* REGEX.VAR_EXPANSION anchored at the start of s: the length of the match *)
(* (0 when there is none) and the captured name                            *)
matchVarExpansion(s) ==
  IF Len(s) < 2 \/ s[1] # "$" THEN [len |-> 0, name |-> <<>>]
  ELSE IF s[2] = "{"
       THEN LET close == firstFrom(s, "}", 3)
            IN IF close >= 4
               THEN [len |-> close, name |-> SubSeq(s, 3, close - 1)]
               ELSE [len |-> 0, name |-> <<>>]
       ELSE IF IsKeyStart(s[2])
            THEN LET e == simpleNameEnd(s)
                 IN [len |-> e, name |-> SubSeq(s, 2, e)]
            ELSE [len |-> 0, name |-> <<>>]

(* lookup(varName) || '' *)
lookupOrEmpty(lookup, varName) ==
  IF varName \in DOMAIN lookup THEN lookup[varName] ELSE <<>>

(* expandValue scanning the substituted text again *)
RECURSIVE expandValueRescan(_, _)
expandValueRescan(value, lookup) ==
  IF value = <<>> THEN <<>>
  ELSE LET m == matchVarExpansion(value)
       IN IF m.len > 0
          THEN expandValueRescan(lookupOrEmpty(lookup, m.name), lookup)
                 \o expandValueRescan(SubSeq(value, m.len + 1, Len(value)),
                                      lookup)
          ELSE <<value[1]>> \o expandValueRescan(Tail(value), lookup)

RECURSIVE expandValue(_, _)
expandValue(value, lookup) ==
  IF value = <<>> THEN <<>>
  ELSE LET m == matchVarExpansion(value)
       IN IF m.len > 0
          THEN lookupOrEmpty(lookup, m.name)
                 \o expandValue(SubSeq(value, m.len + 1, Len(value)), lookup)
          ELSE <<value[1]>> \o expandValue(Tail(value), lookup)

----------------------------------------------------------------------------
(* Line parser *)

(* handleQuotes unescaping the backslash pairs before the quotes *)
handleQuotesSwapped(value) ==
  LET trimmed == trim(value)
  IN IF startsWith(trimmed, <<DQ>>) /\ endsWith(trimmed, <<DQ>>)
     THEN replacePair(replacePair(sliceInner(trimmed), BS, BS, <<BS>>),
                      BS, DQ, <<DQ>>)
     ELSE IF startsWith(trimmed, <<SQ>>) /\ endsWith(trimmed, <<SQ>>)
          THEN sliceInner(trimmed)
          ELSE value

(* handleQuotes unescaping the quotes only *)
handleQuotesQuoteOnly(value) ==
  LET trimmed == trim(value)
  IN IF startsWith(trimmed, <<DQ>>) /\ endsWith(trimmed, <<DQ>>)
     THEN replacePair(sliceInner(trimmed), BS, DQ, <<DQ>>)
     ELSE IF startsWith(trimmed, <<SQ>>) /\ endsWith(trimmed, <<SQ>>)
          THEN sliceInner(trimmed)
          ELSE value

handleQuotes(value) ==
  LET trimmed == trim(value)
  IN IF startsWith(trimmed, <<DQ>>) /\ endsWith(trimmed, <<DQ>>)
     THEN replacePair(replacePair(sliceInner(trimmed), BS, DQ, <<DQ>>),
                      BS, BS, <<BS>>)
     ELSE IF startsWith(trimmed, <<SQ>>) /\ endsWith(trimmed, <<SQ>>)
          THEN sliceInner(trimmed)
          ELSE value

(* processValue trimming before it unquotes *)
processValueTrimFirst(value, map, opts) ==
  LET trimmedValue == IF opts.trimValues THEN trim(value) ELSE value
      unquoted == handleQuotes(trimmedValue)
  IN IF opts.expandVariables
     THEN expandValue(unquoted, map)
     ELSE unquoted

processValue(value, map, opts) ==
  LET unquoted == handleQuotes(value)
      trimmedValue == IF opts.trimValues THEN trim(unquoted) ELSE unquoted
  IN IF opts.expandVariables
     THEN expandValue(trimmedValue, map)
     ELSE trimmedValue

EnvoxError(line, content, message) ==
  [kind |-> "throw", line |-> line, content |-> content, message |-> message,
   key |-> <<>>, value |-> <<>>]

EnvVariable(key, value, line) ==
  [kind |-> "var", line |-> line, content |-> <<>>, message |-> <<>>,
   key |-> key, value |-> value]

Null ==
  [kind |-> "null", line |-> 0, content |-> <<>>, message |-> <<>>,
   key |-> <<>>, value |-> <<>>]

(* parseLine with the value cut at the second `=`, as split('=')[1] would *)
parseLineSplit(line, lineNumber, map, opts) ==
  LET trimmedLine == trim(line)
      processedLine ==
        IF opts.allowExport /\ startsWith(trimmedLine, exportPrefix)
        THEN substringFrom(trimmedLine, 7)
        ELSE trimmedLine
      equalsIndex == indexOf(processedLine, "=")
      key == trim(substring(processedLine, 0, equalsIndex))
      rest == substringFrom(processedLine, equalsIndex + 1)
      value == IF indexOf(rest, "=") = -1 THEN rest
               ELSE substring(rest, 0, indexOf(rest, "="))
  IN IF trimmedLine = <<>> THEN Null
     ELSE IF opts.allowComments /\ startsWith(trimmedLine, <<"#">>) THEN Null
     ELSE IF equalsIndex = -1
          THEN IF ~opts.allowEmpty
               THEN EnvoxError(lineNumber, line, MissingEquals)
               ELSE Null
     ELSE IF ~isValidKey(key)
          THEN EnvoxError(lineNumber, line, InvalidKeyPrefix \o key)
     ELSE EnvVariable(key, processValue(value, map, opts), lineNumber)

(* parseLine reporting the trimmed line as the content of an invalid key *)
parseLineTrimmedContent(line, lineNumber, map, opts) ==
  LET trimmedLine == trim(line)
      processedLine ==
        IF opts.allowExport /\ startsWith(trimmedLine, exportPrefix)
        THEN substringFrom(trimmedLine, 7)
        ELSE trimmedLine
      equalsIndex == indexOf(processedLine, "=")
      key == trim(substring(processedLine, 0, equalsIndex))
      value == substringFrom(processedLine, equalsIndex + 1)
  IN IF trimmedLine = <<>> THEN Null
     ELSE IF opts.allowComments /\ startsWith(trimmedLine, <<"#">>) THEN Null
     ELSE IF equalsIndex = -1
          THEN IF ~opts.allowEmpty
               THEN EnvoxError(lineNumber, line, MissingEquals)
               ELSE Null
     ELSE IF ~isValidKey(key)
          THEN EnvoxError(lineNumber, trimmedLine, InvalidKeyPrefix \o key)
     ELSE EnvVariable(key, processValue(value, map, opts), lineNumber)

(* parseLine throwing on a missing `=` whatever allowEmpty says *)
parseLineStrict(line, lineNumber, map, opts) ==
  LET trimmedLine == trim(line)
      processedLine ==
        IF opts.allowExport /\ startsWith(trimmedLine, exportPrefix)
        THEN substringFrom(trimmedLine, 7)
        ELSE trimmedLine
      equalsIndex == indexOf(processedLine, "=")
      key == trim(substring(processedLine, 0, equalsIndex))
      value == substringFrom(processedLine, equalsIndex + 1)
  IN IF trimmedLine = <<>> THEN Null
     ELSE IF opts.allowComments /\ startsWith(trimmedLine, <<"#">>) THEN Null
     ELSE IF equalsIndex = -1
          THEN EnvoxError(lineNumber, line, MissingEquals)
     ELSE IF ~isValidKey(key)
          THEN EnvoxError(lineNumber, line, InvalidKeyPrefix \o key)
     ELSE EnvVariable(key, processValue(value, map, opts), lineNumber)

(* parseLine returning null for an invalid key *)
parseLineDropInvalid(line, lineNumber, map, opts) ==
  LET trimmedLine == trim(line)
      processedLine ==
        IF opts.allowExport /\ startsWith(trimmedLine, exportPrefix)
        THEN substringFrom(trimmedLine, 7)
        ELSE trimmedLine
      equalsIndex == indexOf(processedLine, "=")
      key == trim(substring(processedLine, 0, equalsIndex))
      value == substringFrom(processedLine, equalsIndex + 1)
  IN IF trimmedLine = <<>> THEN Null
     ELSE IF opts.allowComments /\ startsWith(trimmedLine, <<"#">>) THEN Null
     ELSE IF equalsIndex = -1
          THEN IF ~opts.allowEmpty
               THEN EnvoxError(lineNumber, line, MissingEquals)
               ELSE Null
     ELSE IF ~isValidKey(key)
          THEN Null
     ELSE EnvVariable(key, processValue(value, map, opts), lineNumber)

(* parseLine taking a blank line for a line without an equals sign *)
parseLineBlankStrict(line, lineNumber, map, opts) ==
  LET trimmedLine == trim(line)
      processedLine ==
        IF opts.allowExport /\ startsWith(trimmedLine, exportPrefix)
        THEN substringFrom(trimmedLine, 7)
        ELSE trimmedLine
      equalsIndex == indexOf(processedLine, "=")
      key == trim(substring(processedLine, 0, equalsIndex))
      value == substringFrom(processedLine, equalsIndex + 1)
  IN IF opts.allowComments /\ startsWith(trimmedLine, <<"#">>) THEN Null
     ELSE IF equalsIndex = -1
          THEN IF ~opts.allowEmpty
               THEN EnvoxError(lineNumber, line, MissingEquals)
               ELSE Null
     ELSE IF ~isValidKey(key)
          THEN EnvoxError(lineNumber, line, InvalidKeyPrefix \o key)
     ELSE EnvVariable(key, processValue(value, map, opts), lineNumber)

(* parseLine dropping the export prefix whatever allowExport is *)
parseLineAlwaysExport(line, lineNumber, map, opts) ==
  LET trimmedLine == trim(line)
      processedLine ==
        IF startsWith(trimmedLine, exportPrefix)
        THEN substringFrom(trimmedLine, 7)
        ELSE trimmedLine
      equalsIndex == indexOf(processedLine, "=")
      key == trim(substring(processedLine, 0, equalsIndex))
      value == substringFrom(processedLine, equalsIndex + 1)
  IN IF trimmedLine = <<>> THEN Null
     ELSE IF opts.allowComments /\ startsWith(trimmedLine, <<"#">>) THEN Null
     ELSE IF equalsIndex = -1
          THEN IF ~opts.allowEmpty
               THEN EnvoxError(lineNumber, line, MissingEquals)
               ELSE Null
     ELSE IF ~isValidKey(key)
          THEN EnvoxError(lineNumber, line, InvalidKeyPrefix \o key)
     ELSE EnvVariable(key, processValue(value, map, opts), lineNumber)

(* What parseLine does with one line: returns null, returns a variable, *)
(* or throws an EnvoxError                                              *)
parseLine(line, lineNumber, map, opts) ==
  LET trimmedLine == trim(line)
      processedLine ==
        IF opts.allowExport /\ startsWith(trimmedLine, exportPrefix)
        THEN substringFrom(trimmedLine, 7)
        ELSE trimmedLine
      equalsIndex == indexOf(processedLine, "=")
      key == trim(substring(processedLine, 0, equalsIndex))
      value == substringFrom(processedLine, equalsIndex + 1)
  IN IF trimmedLine = <<>> THEN Null
     ELSE IF opts.allowComments /\ startsWith(trimmedLine, <<"#">>) THEN Null
     ELSE IF equalsIndex = -1
          THEN IF ~opts.allowEmpty
               THEN EnvoxError(lineNumber, line, MissingEquals)
               ELSE Null
     ELSE IF ~isValidKey(key)
          THEN EnvoxError(lineNumber, line, InvalidKeyPrefix \o key)
     ELSE EnvVariable(key, processValue(value, map, opts), lineNumber)

----------------------------------------------------------------------------
(* Objects and maps.  A plain object is the sequence of its own entries in *)
(* insertion order; a Map used only through get/set is a function.         *)

protoKey == <<"_","_","p","r","o","t","o","_","_">>

hasKey(obj, key) == \E i \in 1..Len(obj) : obj[i].key = key

(* obj[key] = value for a string value: an existing entry keeps its place, *)
(* a new one is added last, and the inherited __proto__ setter ignores a   *)
(* string, so that assignment creates no entry                             *)
objectSet(obj, key, value) ==
  IF key = protoKey THEN obj
  ELSE IF hasKey(obj, key)
       THEN [i \in 1..Len(obj) |->
               IF obj[i].key = key THEN [key |-> key, value |-> value]
               ELSE obj[i]]
       ELSE Append(obj, [key |-> key, value |-> value])

RECURSIVE toObjectFrom(_, _)
toObjectFrom(obj, vs) ==
  IF vs = <<>> THEN obj
  ELSE toObjectFrom(objectSet(obj, Head(vs).key, Head(vs).value), Tail(vs))

toObject(vs) == toObjectFrom(<<>>, vs)

(* map.set(key, value) *)
mapSet(map, key, value) ==
  [k \in DOMAIN map \cup {key} |-> IF k = key THEN value ELSE map[k]]

----------------------------------------------------------------------------
(* Serializer *)

(* REGEX.NEED_QUOTES.test(value) *)
needQuotes(value) ==
  \E i \in 1..Len(value) : value[i] \in WhiteSpace \cup {DQ, SQ, "$", BS}

(* value.replace(/c/g, r) for a one-character pattern *)
RECURSIVE replaceChar(_, _, _)
replaceChar(s, c, r) ==
  IF s = <<>> THEN <<>>
  ELSE (IF Head(s) = c THEN r ELSE <<Head(s)>>) \o replaceChar(Tail(s), c, r)

RECURSIVE join(_, _)
join(parts, sep) ==
  IF parts = <<>> THEN <<>>
  ELSE IF Len(parts) = 1 THEN Head(parts)
       ELSE Head(parts) \o sep \o join(Tail(parts), sep)

fromObject(obj, includeExport) ==
  LET prefix == IF includeExport THEN exportPrefix ELSE <<>>
      quotedValue(value) ==
        IF needQuotes(value)
        THEN <<DQ>> \o replaceChar(value, DQ, <<BS, DQ>>) \o <<DQ>>
        ELSE value
  IN join([i \in 1..Len(obj) |->
             prefix \o obj[i].key \o <<"=">> \o quotedValue(obj[i].value)],
          <<"\n">>)

(* s.split(sep) for a one-character separator *)
RECURSIVE split(_, _)
split(s, sep) ==
  IF indexOf(s, sep) = -1 THEN <<s>>
  ELSE <<substring(s, 0, indexOf(s, sep))>>
         \o split(substringFrom(s, indexOf(s, sep) + 1), sep)

----------------------------------------------------------------------------
(* Classifier *)

(* REGEX.ENV_VAR_LIKE.test(key) *)
isEnvVarLike(key) ==
  /\ key # <<>>
  /\ IsKeyStart(key[1])
  /\ \A i \in 2..Len(key) : IsKeyChar(key[i])

(* line.replace(/^\s*export\s+/, '') *)
removeExport(line) ==
  LET t == trimStart(line)
  IN IF Len(t) >= 7 /\ SubSeq(t, 1, 6) = <<"e","x","p","o","r","t">>
        /\ t[7] \in WhiteSpace
     THEN trimStart(substringFrom(t, 6))
     ELSE line

isLikeEnvVar(line) ==
  LET cleaned == removeExport(line)
      equalsIndex == indexOf(cleaned, "=")
      key == trim(substring(cleaned, 0, equalsIndex))
  IN IF equalsIndex = -1 THEN FALSE ELSE isEnvVarLike(key)

(* isEnvFile counting the comment lines too *)
isEnvFileCountsComments(content) ==
  LET nonEmpty(line) == trim(line) # <<>>
      lines == SelectSeq(split(content, "\n"), nonEmpty)
      totalLines == Len(lines)
      validLines == Cardinality({i \in 1..Len(lines) :
                                   /\ ~startsWith(trim(lines[i]), <<"#">>)
                                   /\ isLikeEnvVar(trim(lines[i]))})
  IN IF Len(lines) = 0 THEN FALSE
     ELSE totalLines > 0 /\ 2 * validLines >= totalLines

(* validLines / totalLines >= 0.5 is exact on these small counts and is    *)
(* written 2 * validLines >= totalLines                                    *)
isEnvFile(content) ==
  LET nonEmpty(line) == trim(line) # <<>>
      lines == SelectSeq(split(content, "\n"), nonEmpty)
      counted == {i \in 1..Len(lines) : ~startsWith(trim(lines[i]), <<"#">>)}
      totalLines == Cardinality(counted)
      validLines == Cardinality({i \in counted : isLikeEnvVar(trim(lines[i]))})
  IN IF Len(lines) = 0 THEN FALSE
     ELSE totalLines > 0 /\ 2 * validLines >= totalLines

----------------------------------------------------------------------------
(* Schema adapter glue *)

SchemaFailedText == <<"Schema validation failed">>
SchemaErrorText == <<"Schema validation error">>
PathPrefix == <<"Path: ">>

(* String(n) for a non-negative integer: its decimal digits *)
digitChar(d) ==
  CASE d = 0 -> "0" [] d = 1 -> "1" [] d = 2 -> "2" [] d = 3 -> "3"
    [] d = 4 -> "4" [] d = 5 -> "5" [] d = 6 -> "6" [] d = 7 -> "7"
    [] d = 8 -> "8" [] d = 9 -> "9"

RECURSIVE numberToString(_)
numberToString(n) ==
  IF n < 10 THEN <<digitChar(n)>>
  ELSE numberToString(n \div 10) \o <<digitChar(n % 10)>>

(* String(k) for a property key k: a string is itself, a number its digits *)
String(k) == IF k.isNumber THEN numberToString(k.num) ELSE k.str

(* formatPath joining the segments with nothing between them *)
RECURSIVE formatPathJoined(_)
formatPathJoined(path) ==
  IF path = <<>> THEN <<>>
  ELSE String(Head(path).key) \o formatPathJoined(Tail(path))

(* A path segment is a property key, or an object holding one under key:  *)
(* String(segment.key) or String(segment), then join('.')                 *)
RECURSIVE formatPath(_)
formatPath(path) ==
  IF path = <<>> THEN <<>>
  ELSE IF Len(path) = 1 THEN String(Head(path).key)
       ELSE String(Head(path).key) \o <<".">> \o formatPath(Tail(path))

issueToError(issue) ==
  [line |-> 0,
   message |-> issue.message,
   content |-> IF issue.hasPath THEN PathPrefix \o formatPath(issue.path)
               ELSE SchemaFailedText]

(* runSchema reporting a throw with the placeholder of an issue *)
runSchemaThrowAsIssue(validation) ==
  IF validation.kind = "throw"
  THEN [success |-> FALSE, data |-> <<>>,
        errors |-> <<[line |-> 0,
                      message |-> IF validation.isError
                                  THEN validation.message
                                  ELSE SchemaFailedText,
                      content |-> SchemaFailedText]>>]
  ELSE IF validation.hasIssues
       THEN [success |-> FALSE, data |-> <<>>,
             errors |-> IF validation.issuesDefined
                        THEN [i \in 1..Len(validation.issues) |->
                                issueToError(validation.issues[i])]
                        ELSE <<>>]
       ELSE [success |-> TRUE, data |-> validation.value, errors |-> <<>>]

(* What runSchema returns for what `await validate(data)` produced:        *)
(* validation.kind is "throw" (validate threw or rejected), or "result"    *)
(* with hasIssues = ('issues' in validation) and issuesDefined telling     *)
(* whether validation.issues is an array                                   *)
runSchema(validation) ==
  IF validation.kind = "throw"
  THEN [success |-> FALSE, data |-> <<>>,
        errors |-> <<[line |-> 0,
                      message |-> IF validation.isError
                                  THEN validation.message
                                  ELSE SchemaFailedText,
                      content |-> SchemaErrorText]>>]
  ELSE IF validation.hasIssues
       THEN [success |-> FALSE, data |-> <<>>,
             errors |-> IF validation.issuesDefined
                        THEN [i \in 1..Len(validation.issues) |->
                                issueToError(validation.issues[i])]
                        ELSE <<>>]
       ELSE [success |-> TRUE, data |-> validation.value, errors |-> <<>>]

----------------------------------------------------------------------------
(* Inputs *)

MaxLines == 2
MaxEntries == 2
MaxIssues == 2
MaxExpandLines == 3
MaxLen == 5
MaxValueLen == 2
MaxFileLines == 3
MaxContentLen == 6
MaxRefLen == 5
MaxChain == 3

defaultOptions ==
  [allowEmpty |-> TRUE, allowComments |-> TRUE, allowExport |-> TRUE,
   trimValues |-> TRUE, expandVariables |-> FALSE, schema |-> FALSE]

(* Every configuration; schema tells whether a schema is configured *)
AllOptions ==
  [allowEmpty : BOOLEAN, allowComments : BOOLEAN, allowExport : BOOLEAN,
   trimValues : BOOLEAN, expandVariables : BOOLEAN, schema : BOOLEAN]

SeqsUpTo(S, n) == UNION {[1..k -> S] : k \in 0..n}

(* content.split('\n') always yields at least one line *)
TextSources(lineSet, maxLines) ==
  {[mode |-> "text", lines |-> t, entries |-> <<>>] :
     t \in SeqsUpTo(lineSet, maxLines) \ {<<>>}}

distinctKeys(es) ==
  \A i, j \in 1..Len(es) : es[i].key = es[j].key => i = j

(* A flat map: entries in insertion order, a value possibly undefined *)
MapSources(keySet, valueSet) ==
  {[mode |-> "map", lines |-> <<>>, entries |-> es] :
     es \in {e \in SeqsUpTo([key : keySet, defined : BOOLEAN,
                             value : valueSet], MaxEntries) :
               distinctKeys(e)}}

kA == <<"A">>
kB == <<"B">>
kAB == <<"A","_","B">>

Lines ==
  { <<>>,
    <<" ">>,
    <<"#","c">>,
    <<"A","=","x">>,
    <<"B","=","y","=","#">>,
    <<" ","A"," ","="," ","z"," ">>,
    exportPrefix \o <<"B","=","x">>,
    <<"A"," ">>,
    <<" ","1","A","=","x">> }

(* Lines whose key or missing `=` decides what they yield *)
KeyLines ==
  { <<"#","A","=","x">>,
    <<" ","A"," ","="," ","z"," ">>,
    exportPrefix \o <<"B","=","x">>,
    exportPrefix \o <<"=","x">>,
    exportPrefix \o <<"A">>,
    <<"#","c">>,
    <<"A"," ">>,
    <<" ","1","A","=","x">>,
    <<"A"," ","B","=","x">> }

(* Lines that bind, rebind and reference variables *)
ExpandLines ==
  { <<"A","=","x">>,
    <<"A","=","y">>,
    <<"A","_","B","=","v">>,
    <<"B","=","$","{","A","}">>,
    <<"B","=","$","A">>,
    <<"C","=","$","{","A","_","B","}">>,
    <<"C","=","$","A","_","B","/","u">> }

(* Lines that bind the same keys again, __proto__ among the keys *)
DupLines ==
  { <<"A","=","x">>,
    <<"A","=","y">>,
    <<" ","A"," ","="," ","z"," ">>,
    exportPrefix \o <<"A","=","w">>,
    <<"B","=","x">>,
    protoKey \o <<"=","x">>,
    protoKey \o <<"=","y">> }

(* Lines whose values are padded, quoted or hold references *)
ValueLines ==
  { <<"A","=","x">>,
    <<"A","="," ","x"," ">>,
    <<"A","=",DQ," ","x"," ",DQ>>,
    <<"A","=",SQ," ","x"," ",SQ>>,
    <<"B","=","a"," ","$","{","M","}">>,
    <<"B","=","$","{","A","}">>,
    <<"B","=",DQ," ","$","A"," ",DQ>>,
    <<"B","=",SQ,"$","{","A","}",SQ>> }

(* The configurations that differ in what happens to a value *)
ExpandOptions ==
  {o \in AllOptions : o.allowEmpty /\ o.allowComments /\ o.allowExport}

QuoteChars == {DQ, SQ, BS, " ", "a"}

SerialChars == {"a", " ", DQ, SQ, BS, "$"}

(* Values for objects with several entries *)
FewValues == {<<"a">>, <<"a"," ","b">>, <<BS, BS>>}

(* The objects handed to fromObject: one entry with every value over        *)
(* SerialChars, or several entries with a few values                        *)
SerialObjects ==
  {<<[key |-> kA, value |-> v]>> : v \in SeqsUpTo(SerialChars, MaxValueLen)}
  \cup {es \in SeqsUpTo([key : {kA, kAB}, value : FewValues], MaxEntries) :
          distinctKeys(es)}

(* Lines of the texts handed to isEnvFile *)
FileLines ==
  { <<>>,
    <<" ">>,
    <<" ","#","A","=","x">>,
    <<"A","=","x">>,
    <<" ","B"," ","=">>,
    <<"e","x","p","o","r","t"," "," ","A","=","x">>,
    <<"e","x","p","o","r","t","=","x">>,
    <<"e","x","p","o","r","t","\t","B","=","y">>,
    <<"e","x","p","o","r","t"," ","A">>,
    <<"A"," ","B">>,
    <<"1","A","=","x">> }

(* Characters of a double-quoted content *)
ContentChars == {BS, DQ, "a"}

(* Characters of the values handed to expandValue *)
RefChars == {"$", "{", "}", "A", "_"}

(* What the lookup answers: nothing, a plain value, or text that reads as a *)
(* reference                                                                *)
Lookups ==
  {[k \in ks |-> IF k = kA THEN a ELSE <<"y">>] :
     ks \in SUBSET {kA, kB},
     a \in {<<>>, <<"x">>, <<"$","{","B","}">>, <<"$","B">>}}

kC == <<"C">>

(* Map entries that refer to each other, to themselves, or to nothing *)
ChainKeys == {kA, kB, kC}
ChainValues ==
  {<<"a">>, <<"$","{","A","}">>, <<"$","{","B","}">>, <<"$","C">>}

ChainSources ==
  {[mode |-> "map", lines |-> <<>>, entries |-> es] :
     es \in {e \in SeqsUpTo([key : ChainKeys, defined : BOOLEAN,
                              value : ChainValues], MaxChain) :
               distinctKeys(e)}}

ChainLines == {<<"A","=","a">>, <<"B","=","$","{","A","}">>}

MapKeys == {kA, kB, <<"1","A">>}
MapValues == {<<"x">>, <<"$","B">>}

(* Map values that reference each other *)
ExpandMapValues == {<<"x">>, <<"$","B">>, <<"$","A">>}

stringKey(str) == [isNumber |-> FALSE, str |-> str, num |-> 0]
numberKey(num) == [isNumber |-> TRUE, str |-> <<>>, num |-> num]

Issues ==
  { [message |-> <<"m1">>, hasPath |-> FALSE, path |-> <<>>],
    [message |-> <<"m2">>, hasPath |-> TRUE,
     path |-> <<[isObject |-> FALSE, key |-> stringKey(<<"P">>)],
                [isObject |-> TRUE, key |-> numberKey(10)]>>],
    [message |-> <<"m3">>, hasPath |-> TRUE, path |-> <<>>] }

SchemaValues == { <<>>, <<[key |-> <<"port">>, value |-> <<"1">>]>> }

NoValidation ==
  [kind |-> "none", isError |-> FALSE, message |-> <<>>, hasIssues |-> FALSE,
   issuesDefined |-> FALSE, issues |-> <<>>, value |-> <<>>]

(* Everything `await schema['~standard'].validate(data)` can produce *)
ValidationResults ==
  {[NoValidation EXCEPT !.kind = "result", !.value = v] : v \in SchemaValues}
  \cup {[NoValidation EXCEPT !.kind = "result", !.hasIssues = TRUE,
                             !.value = v] : v \in SchemaValues}
  \cup {[NoValidation EXCEPT !.kind = "result", !.hasIssues = TRUE,
                             !.issuesDefined = TRUE, !.issues = is] :
          is \in {l \in SeqsUpTo(Issues, MaxIssues) :
                   \A i, j \in 1..Len(l) : l[i] = l[j] => i = j}}
  \cup {[NoValidation EXCEPT !.kind = "throw", !.isError = TRUE,
                             !.message = <<"boom">>],
        [NoValidation EXCEPT !.kind = "throw", !.message = <<"oops">>]}

----------------------------------------------------------------------------
(* Envox.parse *)

NoResult == [ok |-> FALSE, errors |-> <<>>, data |-> <<>>, vars |-> <<>>]
emptyMap == [k \in {} |-> <<>>]

InitWith(sources, optionSet) ==
  /\ source \in sources
  /\ options \in optionSet
  /\ pc = "scan"
  /\ index = 0
  /\ variables = <<>>
  /\ errors = <<>>
  /\ envMap = emptyMap
  /\ result = NoResult
  /\ validateCalls = 0
  /\ validateArg = <<>>
  /\ validated = NoValidation
  /\ fnIn = <<>>
  /\ fnOut = <<>>

Init == InitWith(TextSources(Lines, MaxLines)
                   \cup MapSources(MapKeys, MapValues),
                 AllOptions)

(* The loop leaving at the first line that throws *)
ScanLineAbort ==
  /\ pc = "scan"
  /\ source.mode = "text"
  /\ index < Len(source.lines)
  /\ LET line == source.lines[index + 1]
         lineNumber == index + 1
         r == parseLine(line, lineNumber, envMap, options)
     IN /\ variables' =
             IF r.kind = "var"
             THEN Append(variables,
                         [key |-> r.key, value |-> r.value, line |-> r.line])
             ELSE variables
        /\ envMap' =
             IF r.kind = "var" THEN mapSet(envMap, r.key, r.value) ELSE envMap
        /\ errors' =
             IF r.kind = "throw"
             THEN Append(errors, [line |-> r.line, message |-> r.message,
                                  content |-> r.content])
             ELSE errors
        /\ pc' = IF index + 1 = Len(source.lines) \/ r.kind = "throw"
                 THEN "post" ELSE "scan"
  /\ index' = index + 1
  /\ UNCHANGED <<source, options, result, validateCalls, validateArg,
                 fnIn, fnOut, validated>>

(* The loop keeping the first value bound to a key for later lookups *)
ScanLineFirstWins ==
  /\ pc = "scan"
  /\ source.mode = "text"
  /\ index < Len(source.lines)
  /\ LET line == source.lines[index + 1]
         lineNumber == index + 1
         r == parseLine(line, lineNumber, envMap, options)
     IN /\ variables' =
             IF r.kind = "var"
             THEN Append(variables,
                         [key |-> r.key, value |-> r.value, line |-> r.line])
             ELSE variables
        /\ envMap' =
             IF r.kind = "var" /\ r.key \notin DOMAIN envMap
             THEN mapSet(envMap, r.key, r.value) ELSE envMap
        /\ errors' =
             IF r.kind = "throw"
             THEN Append(errors, [line |-> r.line, message |-> r.message,
                                  content |-> r.content])
             ELSE errors
  /\ index' = index + 1
  /\ pc' = IF index + 1 = Len(source.lines) THEN "post" ELSE "scan"
  /\ UNCHANGED <<source, options, result, validateCalls, validateArg,
                 fnIn, fnOut, validated>>

(* One iteration of the loop over the lines of a text source *)
ScanLine ==
  /\ pc = "scan"
  /\ source.mode = "text"
  /\ index < Len(source.lines)
  /\ LET line == source.lines[index + 1]
         lineNumber == index + 1
         r == parseLine(line, lineNumber, envMap, options)
     IN /\ variables' =
             IF r.kind = "var"
             THEN Append(variables,
                         [key |-> r.key, value |-> r.value, line |-> r.line])
             ELSE variables
        /\ envMap' =
             IF r.kind = "var" THEN mapSet(envMap, r.key, r.value) ELSE envMap
        /\ errors' =
             IF r.kind = "throw"
             THEN Append(errors, [line |-> r.line, message |-> r.message,
                                  content |-> r.content])
             ELSE errors
  /\ index' = index + 1
  /\ pc' = IF index + 1 = Len(source.lines) THEN "post" ELSE "scan"
  /\ UNCHANGED <<source, options, result, validateCalls, validateArg,
                 fnIn, fnOut, validated>>

(* A map source keeping every entry with a defined value *)
tempMapOfDefined(es) ==
  LET defined(e) == e.defined
      kept == SelectSeq(es, defined)
  IN [i \in 1..Len(kept) |-> [key |-> kept[i].key, value |-> kept[i].value]]

(* The entries a map source keeps: valid key and defined value *)
RECURSIVE tempMapOf(_)
tempMapOf(es) ==
  IF es = <<>> THEN <<>>
  ELSE IF isValidKey(Head(es).key) /\ Head(es).defined
       THEN <<[key |-> Head(es).key, value |-> Head(es).value]>>
              \o tempMapOf(Tail(es))
       ELSE tempMapOf(Tail(es))

entriesAsMap(es) ==
  [k \in {es[i].key : i \in 1..Len(es)} |->
     (CHOOSE e \in {es[i] : i \in 1..Len(es)} : e.key = k).value]

(* The branch for a map source, an entry seeing only the entries before it *)
ParseMapProgressive ==
  /\ pc = "scan"
  /\ source.mode = "map"
  /\ LET tempMap == tempMapOf(source.entries)
         expanded == [i \in 1..Len(tempMap) |->
                        IF options.expandVariables
                        THEN expandValue(tempMap[i].value,
                                         entriesAsMap(SubSeq(tempMap, 1, i - 1)))
                        ELSE tempMap[i].value]
     IN /\ variables' = [i \in 1..Len(tempMap) |->
                           [key |-> tempMap[i].key, value |-> expanded[i],
                            line |-> 0]]
        /\ envMap' = [k \in DOMAIN entriesAsMap(tempMap) |->
                        expanded[CHOOSE i \in 1..Len(tempMap) :
                                   tempMap[i].key = k]]
  /\ pc' = "post"
  /\ UNCHANGED <<source, options, index, errors, result, validateCalls,
                 validateArg, fnIn, fnOut, validated>>

(* The branch for a map source, keeping and expanding the entries in the *)
(* source itself                                                        *)
ParseMapInPlace ==
  /\ pc = "scan"
  /\ source.mode = "map"
  /\ LET tempMap == tempMapOf(source.entries)
         lookup == entriesAsMap(tempMap)
         expanded == [i \in 1..Len(tempMap) |->
                        IF options.expandVariables
                        THEN expandValue(tempMap[i].value, lookup)
                        ELSE tempMap[i].value]
     IN /\ variables' = [i \in 1..Len(tempMap) |->
                           [key |-> tempMap[i].key, value |-> expanded[i],
                            line |-> 0]]
        /\ envMap' = [k \in DOMAIN lookup |->
                        expanded[CHOOSE i \in 1..Len(tempMap) :
                                   tempMap[i].key = k]]
        /\ source' = [source EXCEPT !.entries =
                        [i \in 1..Len(tempMap) |->
                           [key |-> tempMap[i].key, defined |-> TRUE,
                            value |-> expanded[i]]]]
  /\ pc' = "post"
  /\ UNCHANGED <<options, index, errors, result, validateCalls,
                 validateArg, fnIn, fnOut, validated>>

(* The branch for a map source, what a reference yields expanded once more *)
ParseMapTransitive ==
  /\ pc = "scan"
  /\ source.mode = "map"
  /\ LET tempMap == tempMapOf(source.entries)
         lookup == entriesAsMap(tempMap)
         expanded == [i \in 1..Len(tempMap) |->
                        IF options.expandVariables
                        THEN expandValue(expandValue(tempMap[i].value, lookup),
                                         lookup)
                        ELSE tempMap[i].value]
     IN /\ variables' = [i \in 1..Len(tempMap) |->
                           [key |-> tempMap[i].key, value |-> expanded[i],
                            line |-> 0]]
        /\ envMap' = [k \in DOMAIN lookup |->
                        expanded[CHOOSE i \in 1..Len(tempMap) :
                                   tempMap[i].key = k]]
  /\ pc' = "post"
  /\ UNCHANGED <<source, options, index, errors, result, validateCalls,
                 validateArg, fnIn, fnOut, validated>>

(* The branch for a map source, as a whole *)
ParseMap ==
  /\ pc = "scan"
  /\ source.mode = "map"
  /\ LET tempMap == tempMapOf(source.entries)
         lookup == entriesAsMap(tempMap)
         expanded == [i \in 1..Len(tempMap) |->
                        IF options.expandVariables
                        THEN expandValue(tempMap[i].value, lookup)
                        ELSE tempMap[i].value]
     IN /\ variables' = [i \in 1..Len(tempMap) |->
                           [key |-> tempMap[i].key, value |-> expanded[i],
                            line |-> 0]]
        /\ envMap' = [k \in DOMAIN lookup |->
                        expanded[CHOOSE i \in 1..Len(tempMap) :
                                   tempMap[i].key = k]]
  /\ pc' = "post"
  /\ UNCHANGED <<source, options, index, errors, result, validateCalls,
                 validateArg, fnIn, fnOut, validated>>

(* The schema consulted before the collected errors are looked at *)
PostPassSchemaFirst ==
  /\ pc = "post"
  /\ IF options.schema
     THEN /\ validateArg' = toObject(variables)
          /\ validateCalls' = validateCalls + 1
          /\ pc' = "validate"
          /\ UNCHANGED result
     ELSE IF Len(errors) > 0
          THEN /\ result' = [NoResult EXCEPT !.errors = errors]
               /\ pc' = "done"
               /\ UNCHANGED <<validateCalls, validateArg>>
          ELSE /\ result' = [ok |-> TRUE, errors |-> <<>>,
                             data |-> toObject(variables),
                             vars |-> variables]
               /\ pc' = "done"
               /\ UNCHANGED <<validateCalls, validateArg>>
  /\ UNCHANGED <<source, options, index, variables, errors, envMap,
                 fnIn, fnOut, validated>>

(* After the scan: return the errors, or call the schema, or return *)
PostPass ==
  /\ pc = "post"
  /\ IF Len(errors) > 0
     THEN /\ result' = [NoResult EXCEPT !.errors = errors]
          /\ pc' = "done"
          /\ UNCHANGED <<validateCalls, validateArg>>
     ELSE IF options.schema
          THEN /\ validateArg' = toObject(variables)
               /\ validateCalls' = validateCalls + 1
               /\ pc' = "validate"
               /\ UNCHANGED result
          ELSE /\ result' = [ok |-> TRUE, errors |-> <<>>,
                             data |-> toObject(variables),
                             vars |-> variables]
               /\ pc' = "done"
               /\ UNCHANGED <<validateCalls, validateArg>>
  /\ UNCHANGED <<source, options, index, variables, errors, envMap,
                 fnIn, fnOut, validated>>

(* validate settles (validated is what it produced) and parse returns  *)
(* what runSchema made of it                                           *)
SchemaReturn ==
  /\ pc = "validate"
  /\ \E v \in ValidationResults :
       LET validationResult == runSchema(v)
       IN /\ validated' = v
          /\ result' =
               IF validationResult.success
               THEN [ok |-> TRUE, errors |-> <<>>,
                     data |-> validationResult.data, vars |-> variables]
               ELSE [NoResult EXCEPT !.errors = validationResult.errors]
  /\ pc' = "done"
  /\ UNCHANGED <<source, options, index, variables, errors, envMap,
                 validateCalls, validateArg, fnIn, fnOut>>

Next == ScanLine \/ ParseMap \/ PostPass \/ SchemaReturn

Spec == Init /\ [][Next]_vars

(* parse over texts that bind and reference variables *)
InitExpand ==
  InitWith(TextSources(ExpandLines, MaxExpandLines)
             \cup MapSources(MapKeys, ExpandMapValues),
           ExpandOptions)

SpecExpand == InitExpand /\ [][Next]_vars

(* parse over maps whose values refer to each other *)
InitChain ==
  InitWith(TextSources(ChainLines, 1) \cup ChainSources, ExpandOptions)

SpecChain == InitChain /\ [][Next]_vars

(* parse over texts that bind keys more than once *)
InitDup ==
  InitWith(TextSources(DupLines, MaxLines)
             \cup MapSources(MapKeys, MapValues),
           AllOptions)

SpecDup == InitDup /\ [][Next]_vars

(* parse over texts whose values are padded, quoted or hold references *)
InitValues ==
  InitWith(TextSources(ValueLines, MaxLines)
             \cup MapSources(MapKeys, MapValues),
           AllOptions)

SpecValues == InitValues /\ [][Next]_vars

(* parse over texts of lines with valid, invalid and missing keys *)
InitKeys ==
  InitWith(TextSources(KeyLines, MaxLines)
             \cup MapSources(MapKeys, MapValues),
           AllOptions)

SpecKeys == InitKeys /\ [][Next]_vars

----------------------------------------------------------------------------
(* handleQuotes on its own: every raw value over QuoteChars *)

InitHandleQuotes ==
  /\ fnIn \in SeqsUpTo(QuoteChars, MaxLen)
  /\ fnOut = <<>>
  /\ pc = "call"
  /\ source = [mode |-> "none", lines |-> <<>>, entries |-> <<>>]
  /\ options = defaultOptions
  /\ index = 0
  /\ variables = <<>>
  /\ errors = <<>>
  /\ envMap = emptyMap
  /\ result = NoResult
  /\ validateCalls = 0
  /\ validateArg = <<>>
  /\ validated = NoValidation

CallHandleQuotes ==
  /\ pc = "call"
  /\ fnOut' = handleQuotes(fnIn)
  /\ pc' = "return"
  /\ UNCHANGED <<source, options, index, variables, errors, envMap, result,
                 validateCalls, validateArg, validated, fnIn>>

SpecHandleQuotes == InitHandleQuotes /\ [][CallHandleQuotes]_vars

----------------------------------------------------------------------------
(* fromObject, then parse of its text with the default options *)

InitFromObject ==
  /\ fnIn \in [obj : SerialObjects, includeExport : BOOLEAN]
  /\ fnOut = <<>>
  /\ pc = "call"
  /\ source = [mode |-> "none", lines |-> <<>>, entries |-> <<>>]
  /\ options = defaultOptions
  /\ index = 0
  /\ variables = <<>>
  /\ errors = <<>>
  /\ envMap = emptyMap
  /\ result = NoResult
  /\ validateCalls = 0
  /\ validateArg = <<>>
  /\ validated = NoValidation

(* fromObject returns its text, which becomes the source of a parse *)
CallFromObject ==
  /\ pc = "call"
  /\ fnOut' = fromObject(fnIn.obj, fnIn.includeExport)
  /\ source' = [mode |-> "text", lines |-> split(fnOut', "\n"),
                entries |-> <<>>]
  /\ pc' = "scan"
  /\ UNCHANGED <<options, index, variables, errors, envMap, result,
                 validateCalls, validateArg, validated, fnIn>>

NextFromObject == CallFromObject \/ ScanLine \/ PostPass

SpecFromObject == InitFromObject /\ [][NextFromObject]_vars

----------------------------------------------------------------------------
(* isEnvFile on its own: every text of up to MaxFileLines lines *)

InitIsEnvFile ==
  /\ fnIn \in {join(t, <<"\n">>) :
                 t \in SeqsUpTo(FileLines, MaxFileLines) \ {<<>>}}
  /\ fnOut = FALSE
  /\ pc = "call"
  /\ source = [mode |-> "none", lines |-> <<>>, entries |-> <<>>]
  /\ options = defaultOptions
  /\ index = 0
  /\ variables = <<>>
  /\ errors = <<>>
  /\ envMap = emptyMap
  /\ result = NoResult
  /\ validateCalls = 0
  /\ validateArg = <<>>
  /\ validated = NoValidation

CallIsEnvFile ==
  /\ pc = "call"
  /\ fnOut' = isEnvFile(fnIn)
  /\ pc' = "return"
  /\ UNCHANGED <<source, options, index, variables, errors, envMap, result,
                 validateCalls, validateArg, validated, fnIn>>

SpecIsEnvFile == InitIsEnvFile /\ [][CallIsEnvFile]_vars

----------------------------------------------------------------------------
(* handleQuotes on a double-quoted value: every content over ContentChars *)

InitUnescape ==
  /\ fnIn \in SeqsUpTo(ContentChars, MaxContentLen)
  /\ fnOut = <<>>
  /\ pc = "call"
  /\ source = [mode |-> "none", lines |-> <<>>, entries |-> <<>>]
  /\ options = defaultOptions
  /\ index = 0
  /\ variables = <<>>
  /\ errors = <<>>
  /\ envMap = emptyMap
  /\ result = NoResult
  /\ validateCalls = 0
  /\ validateArg = <<>>
  /\ validated = NoValidation

(* handleQuotes is called with the content between double quotes *)
CallUnescape ==
  /\ pc = "call"
  /\ fnOut' = handleQuotes(<<DQ>> \o fnIn \o <<DQ>>)
  /\ pc' = "return"
  /\ UNCHANGED <<source, options, index, variables, errors, envMap, result,
                 validateCalls, validateArg, validated, fnIn>>

SpecUnescape == InitUnescape /\ [][CallUnescape]_vars

----------------------------------------------------------------------------
(* expandValue on its own: every value over RefChars, every lookup *)

InitExpandValue ==
  /\ fnIn \in [value : SeqsUpTo(RefChars, MaxRefLen), lookup : Lookups]
  /\ fnOut = <<>>
  /\ pc = "call"
  /\ source = [mode |-> "none", lines |-> <<>>, entries |-> <<>>]
  /\ options = defaultOptions
  /\ index = 0
  /\ variables = <<>>
  /\ errors = <<>>
  /\ envMap = emptyMap
  /\ result = NoResult
  /\ validateCalls = 0
  /\ validateArg = <<>>
  /\ validated = NoValidation

CallExpandValue ==
  /\ pc = "call"
  /\ fnOut' = expandValue(fnIn.value, fnIn.lookup)
  /\ pc' = "return"
  /\ UNCHANGED <<source, options, index, variables, errors, envMap, result,
                 validateCalls, validateArg, validated, fnIn>>

SpecExpandValue == InitExpandValue /\ [][CallExpandValue]_vars

----------------------------------------------------------------------------
(* isEnvFile on a text, then parse of the same text with the default options *)

InitClassified ==
  /\ fnIn \in {join(t, <<"\n">>) :
                 t \in SeqsUpTo(FileLines, MaxLines) \ {<<>>}}
  /\ fnOut = FALSE
  /\ pc = "call"
  /\ source = [mode |-> "none", lines |-> <<>>, entries |-> <<>>]
  /\ options = defaultOptions
  /\ index = 0
  /\ variables = <<>>
  /\ errors = <<>>
  /\ envMap = emptyMap
  /\ result = NoResult
  /\ validateCalls = 0
  /\ validateArg = <<>>
  /\ validated = NoValidation

(* The text is classified and handed to parse as it is *)
ClassifyThenParse ==
  /\ pc = "call"
  /\ fnOut' = isEnvFile(fnIn)
  /\ source' = [mode |-> "text", lines |-> split(fnIn, "\n"),
                entries |-> <<>>]
  /\ pc' = "scan"
  /\ UNCHANGED <<options, index, variables, errors, envMap, result,
                 validateCalls, validateArg, validated, fnIn>>

NextClassified == ClassifyThenParse \/ ScanLine \/ PostPass

SpecClassified == InitClassified /\ [][NextClassified]_vars

----------------------------------------------------------------------------
(* Vocabulary of the properties: what a line is, read off its characters *)

isText == source.mode = "text"

(* The lines already scanned *)
scanned == IF isText THEN 1..index ELSE {}

bindingsAt(i) == {j \in 1..Len(variables) : variables[j].line = i}
errorsAt(i) == {j \in 1..Len(errors) : errors[j].line = i}

isBlank(line) == \A p \in 1..Len(line) : line[p] \in WhiteSpace

firstNonBlank(line) == CHOOSE p \in 1..Len(line) :
  line[p] \notin WhiteSpace /\ \A q \in 1..(p - 1) : line[q] \in WhiteSpace

lastNonBlank(line) == CHOOSE p \in 1..Len(line) :
  line[p] \notin WhiteSpace /\ \A q \in (p + 1)..Len(line) : line[q] \in WhiteSpace

(* The line without its surrounding white space *)
core(line) ==
  IF isBlank(line) THEN <<>>
  ELSE SubSeq(line, firstNonBlank(line), lastNonBlank(line))

isComment(line, opts) ==
  opts.allowComments /\ ~isBlank(line) /\ line[firstNonBlank(line)] = "#"

(* The line after white space and an optional `export ` are removed *)
body(line, opts) ==
  LET c == core(line)
  IN IF opts.allowExport /\ Len(c) >= 7
        /\ \A p \in 1..7 : c[p] = exportPrefix[p]
     THEN SubSeq(c, 8, Len(c))
     ELSE c

hasEquals(s) == \E p \in 1..Len(s) : s[p] = "="

firstEquals(s) ==
  CHOOSE p \in 1..Len(s) : s[p] = "=" /\ \A q \in 1..(p - 1) : s[q] # "="

keyText(s) == core(SubSeq(s, 1, firstEquals(s) - 1))
valueText(s) == SubSeq(s, firstEquals(s) + 1, Len(s))

(* ^[A-Za-z_][A-Za-z0-9_]*$ *)
matchesKeyPattern(k) ==
  /\ Len(k) >= 1
  /\ k[1] \in Upper \cup Lower \cup {"_"}
  /\ \A p \in 2..Len(k) : k[p] \in Upper \cup Lower \cup Digit \cup {"_"}

(* KEY=VALUE with nothing around it and a plain VALUE *)
isPlainAssignment(line) ==
  /\ hasEquals(line)
  /\ matchesKeyPattern(SubSeq(line, 1, firstEquals(line) - 1))
  /\ LET v == valueText(line)
     IN /\ \A p \in 1..Len(v) : v[p] \notin {DQ, SQ, "$"}
        /\ v # <<>> => (v[1] \notin WhiteSpace /\ v[Len(v)] \notin WhiteSpace)

(* KEY=... with a valid KEY directly followed by `=` at the start of the line *)
isPlainKeyLine(line) ==
  hasEquals(line) /\ matchesKeyPattern(SubSeq(line, 1, firstEquals(line) - 1))

(* A line that fails: no `=` while allowEmpty is off, or an invalid key *)
isFailingLine(line, opts) ==
  /\ ~isBlank(line)
  /\ ~isComment(line, opts)
  /\ LET b == body(line, opts)
     IN IF hasEquals(b) THEN ~matchesKeyPattern(keyText(b))
        ELSE ~opts.allowEmpty

failingLines ==
  {i \in 1..Len(source.lines) : isFailingLine(source.lines[i], options)}

----------------------------------------------------------------------------
(* C1: in text mode every scanned line KEY=VALUE with a valid KEY and a    *)
(* VALUE free of quotes, surrounding white space and `$` has produced      *)
(* exactly one binding: KEY, everything after the first `=`, and the       *)
(* 1-based number of the line.                                             *)
C1_PlainAssignmentBinds ==
  \A i \in scanned :
    LET line == source.lines[i]
    IN isPlainAssignment(line) =>
         /\ Cardinality(bindingsAt(i)) = 1
         /\ errorsAt(i) = {}
         /\ \A j \in bindingsAt(i) :
              variables[j] =
                [key |-> SubSeq(line, 1, firstEquals(line) - 1),
                 value |-> valueText(line),
                 line |-> i]

C1_Witness ==
  /\ pc = "done"
  /\ isText
  /\ result.ok
  /\ Len(source.lines) = 2
  /\ source.lines[2] = <<"B","=","y","=","#">>
  /\ result.vars[Len(result.vars)] =
       [key |-> kB, value |-> <<"y","=","#">>, line |-> 2]

C3_FailureIffErrors ==
  pc = "done" => (~result.ok <=> Len(result.errors) > 0)

----------------------------------------------------------------------------
(* Vocabulary of the expansion properties *)

(* The value of the latest binding of name made on a line before i, the *)
(* empty string when no earlier line bound it                           *)
boundBefore(name, i) ==
  LET earlier == {j \in 1..Len(variables) :
                    variables[j].key = name /\ variables[j].line < i}
  IN IF earlier = {} THEN <<>>
     ELSE variables[CHOOSE j \in earlier : \A k \in earlier : k <= j].value

isBoundBefore(name, i) ==
  \E j \in 1..Len(variables) :
    variables[j].key = name /\ variables[j].line < i

isAlnumName(n) ==
  matchesKeyPattern(n) /\ \A p \in 1..Len(n) : n[p] # "_"

(* The value is one reference and nothing else: ${NAME}, or $NAME *)
isBracedRef(v) ==
  /\ Len(v) >= 4
  /\ v[1] = "$" /\ v[2] = "{" /\ v[Len(v)] = "}"
  /\ matchesKeyPattern(SubSeq(v, 3, Len(v) - 1))

isBareRef(v) ==
  Len(v) >= 2 /\ v[1] = "$" /\ isAlnumName(SubSeq(v, 2, Len(v)))

refName(v) ==
  IF isBracedRef(v) THEN SubSeq(v, 3, Len(v) - 1) ELSE SubSeq(v, 2, Len(v))

(* The value is $K/u for a key K *)
isBareRefWithPath(v) ==
  /\ Len(v) >= 4
  /\ v[1] = "$" /\ v[Len(v) - 1] = "/" /\ v[Len(v)] = "u"
  /\ matchesKeyPattern(SubSeq(v, 2, Len(v) - 2))

(* C5: with expandVariables on, a line whose value is a reference to NAME  *)
(* binds the value of the latest binding of NAME made on an earlier line,  *)
(* the empty string when no earlier line bound NAME (also when a later     *)
(* line does), and never yields an error.  Bare references are taken over  *)
(* names without `_`, braced ones over every key.                          *)
C5_ReferenceSeesEarlierLines ==
  (isText /\ options.expandVariables) =>
    \A i \in scanned :
      LET line == source.lines[i]
          v == valueText(line)
      IN (isPlainKeyLine(line) /\ (isBracedRef(v) \/ isBareRef(v))) =>
           /\ errorsAt(i) = {}
           /\ Cardinality(bindingsAt(i)) = 1
           /\ \A j \in bindingsAt(i) :
                variables[j].value = boundBefore(refName(v), i)

C5_Witness ==
  /\ pc = "done"
  /\ isText
  /\ options.expandVariables
  /\ source.lines = << <<"A","=","x">>, <<"A","=","y">>,
                       <<"B","=","$","{","A","}">> >>
  /\ result.ok
  /\ result.vars[3] = [key |-> kB, value |-> <<"y">>, line |-> 3]

(* C6: with expandVariables on, for every valid key K bound on an earlier  *)
(* line, keys containing `_` included, the value $K/u expands to the value *)
(* of K followed by /u.                                                    *)
C6_BareNameIsLongestIdentifier ==
  (isText /\ options.expandVariables) =>
    \A i \in scanned :
      LET line == source.lines[i]
          v == valueText(line)
          K == SubSeq(v, 2, Len(v) - 2)
      IN (isPlainKeyLine(line) /\ isBareRefWithPath(v)
            /\ isBoundBefore(K, i)) =>
           \A j \in bindingsAt(i) :
             variables[j].value = boundBefore(K, i) \o <<"/","u">>

----------------------------------------------------------------------------
(* C7: a line that is neither blank nor a comment and contains `=` yields  *)
(* a binding iff its key, the trimmed text before the first `=` after an   *)
(* optional export, matches ^[A-Za-z_][A-Za-z0-9_]*$; otherwise it yields  *)
(* exactly one error with the message "Invalid environment variable key: " *)
(* followed by the key, the original untrimmed line as content and the     *)
(* line number, and no binding.                                            *)
C7_KeyDecidesBindingOrError ==
  isText =>
    \A i \in scanned :
      LET line == source.lines[i]
          b == body(line, options)
      IN (~isBlank(line) /\ ~isComment(line, options) /\ hasEquals(b)) =>
           IF matchesKeyPattern(keyText(b))
           THEN /\ Cardinality(bindingsAt(i)) = 1
                /\ errorsAt(i) = {}
                /\ \A j \in bindingsAt(i) : variables[j].key = keyText(b)
           ELSE /\ bindingsAt(i) = {}
                /\ Cardinality(errorsAt(i)) = 1
                /\ \A j \in errorsAt(i) :
                     errors[j] =
                       [line |-> i,
                        message |-> <<"Invalid environment variable key: ">>
                                      \o keyText(b),
                        content |-> line]

C7_Witness ==
  /\ pc = "done"
  /\ isText
  /\ source.lines = << <<"A"," ">>, <<" ","1","A","=","x">> >>
  /\ options.allowEmpty
  /\ ~result.ok
  /\ result.errors =
       << [line |-> 2,
           message |-> <<"Invalid environment variable key: ","1","A">>,
           content |-> <<" ","1","A","=","x">>] >>

(* C8: a line that is neither blank nor a comment and contains no `=`      *)
(* yields, with allowEmpty off, exactly one error "Missing equals sign"    *)
(* with the original untrimmed line as content and the line number; with   *)
(* allowEmpty on it yields neither a binding nor an error.                 *)
C8_MissingEquals ==
  isText =>
    \A i \in scanned :
      LET line == source.lines[i]
          b == body(line, options)
      IN (~isBlank(line) /\ ~isComment(line, options) /\ ~hasEquals(b)) =>
           /\ bindingsAt(i) = {}
           /\ IF options.allowEmpty
              THEN errorsAt(i) = {}
              ELSE /\ Cardinality(errorsAt(i)) = 1
                   /\ \A j \in errorsAt(i) :
                        errors[j] = [line |-> i,
                                     message |-> <<"Missing equals sign">>,
                                     content |-> line]

C8_Witness ==
  /\ pc = "done"
  /\ isText
  /\ ~options.allowEmpty
  /\ source.lines = << exportPrefix \o <<"B","=","x">>, <<"A"," ">> >>
  /\ options.allowExport
  /\ result.errors = << [line |-> 2, message |-> <<"Missing equals sign">>,
                         content |-> <<"A"," ">>] >>

(* C9 as stated: under every configuration each line that is neither blank *)
(* nor a comment contributes one binding or one error.                     *)
C9_NothingSwallowed ==
  isText =>
    \A i \in scanned :
      LET line == source.lines[i]
      IN (~isBlank(line) /\ ~isComment(line, options)) =>
           Cardinality(bindingsAt(i)) + Cardinality(errorsAt(i)) = 1

(* C9 amended: each line that is neither blank nor a comment contributes   *)
(* exactly one binding or one error, except that with allowEmpty on a line *)
(* without `=` contributes nothing.                                        *)
C9_OnlyLinesWithoutEqualsSkipped ==
  isText =>
    \A i \in scanned :
      LET line == source.lines[i]
          b == body(line, options)
      IN (~isBlank(line) /\ ~isComment(line, options)) =>
           IF options.allowEmpty /\ ~hasEquals(b)
           THEN Cardinality(bindingsAt(i)) + Cardinality(errorsAt(i)) = 0
           ELSE Cardinality(bindingsAt(i)) + Cardinality(errorsAt(i)) = 1

C9_Witness ==
  /\ pc = "done"
  /\ isText
  /\ options = defaultOptions
  /\ source.lines = << <<"A"," ">>, <<" ","1","A","=","x">> >>
  /\ variables = <<>>
  /\ Len(result.errors) = 1
  /\ result.errors[1].line = 2

----------------------------------------------------------------------------
(* Unquoting as one pass over the content: \" gives ", \\ gives \ *)
RECURSIVE unescapeOnePass(_)
unescapeOnePass(s) ==
  IF Len(s) < 2 THEN s
  ELSE IF s[1] = BS /\ s[2] \in {DQ, BS}
       THEN <<s[2]>> \o unescapeOnePass(SubSeq(s, 3, Len(s)))
       ELSE <<s[1]>> \o unescapeOnePass(SubSeq(s, 2, Len(s)))

betweenOuterPair(t) == SubSeq(t, 2, Len(t) - 1)

(* C10: a raw value whose trimmed form starts and ends with `"` unquotes   *)
(* to the content between the outer pair with \" replaced by " and \\ by   *)
(* \; else one whose trimmed form starts and ends with ' unquotes to the   *)
(* content between the outer pair verbatim; any other value is returned    *)
(* unchanged, untrimmed.                                                   *)
C10_Unquote ==
  pc = "return" =>
    LET t == core(fnIn)
    IN fnOut =
         IF t # <<>> /\ t[1] = DQ /\ t[Len(t)] = DQ
         THEN unescapeOnePass(betweenOuterPair(t))
         ELSE IF t # <<>> /\ t[1] = SQ /\ t[Len(t)] = SQ
              THEN betweenOuterPair(t)
              ELSE fnIn

C10_Witness ==
  /\ pc = "return"
  /\ fnIn = <<DQ, BS, BS, DQ, DQ>>
  /\ fnOut = <<BS, DQ>>

----------------------------------------------------------------------------
isTrimmed(v) ==
  v = <<>> \/ (v[1] \notin WhiteSpace /\ v[Len(v)] \notin WhiteSpace)

(* C11: with trimValues on, every binding value produced in text mode has  *)
(* no leading and no trailing white space, whatever the quoting and        *)
(* whatever expandVariables is.                                            *)
C11_TrimmedValues ==
  (isText /\ options.trimValues) =>
    \A j \in 1..Len(variables) : isTrimmed(variables[j].value)

----------------------------------------------------------------------------
(* Vocabulary of the resolved map *)

boundKeys(vs) == {vs[j].key : j \in 1..Len(vs)}

occurrences(vs, k) == {j \in 1..Len(vs) : vs[j].key = k}

lastValue(vs, k) ==
  vs[CHOOSE j \in occurrences(vs, k) : \A i \in occurrences(vs, k) : i <= j].value

(* obj holds value under key *)
holds(obj, k, value) ==
  \E i \in 1..Len(obj) : obj[i].key = k /\ obj[i].value = value

(* obj is the last-wins map of the bindings vs *)
isLastWinsMap(obj, vs) ==
  /\ \A k \in boundKeys(vs) : holds(obj, k, lastValue(vs, k))
  /\ \A i \in 1..Len(obj) : obj[i].key \in boundKeys(vs)
  /\ \A i, j \in 1..Len(obj) : obj[i].key = obj[j].key => i = j

(* The lines of the text that bind: non-blank, not a comment, valid key *)
bindingLines ==
  {i \in 1..Len(source.lines) :
     LET line == source.lines[i]
         b == body(line, options)
     IN ~isBlank(line) /\ ~isComment(line, options) /\ hasEquals(b)
          /\ matchesKeyPattern(keyText(b))}

(* C12: when a key is bound on several lines, data holds for it the value  *)
(* of its last occurrence, and vars holds every occurrence, in encounter   *)
(* order, each with its own line number.                                   *)
C12_LastWinsAllKept ==
  (pc = "done" /\ isText /\ result.ok /\ ~options.schema) =>
    /\ \A k \in boundKeys(result.vars) :
         Cardinality(occurrences(result.vars, k)) >= 2 =>
           holds(result.data, k, lastValue(result.vars, k))
    /\ Len(result.vars) = Cardinality(bindingLines)
    /\ \A j \in 1..Len(result.vars) :
         /\ result.vars[j].line \in bindingLines
         /\ result.vars[j].key =
              keyText(body(source.lines[result.vars[j].line], options))
    /\ \A i, j \in 1..Len(result.vars) :
         i < j => result.vars[i].line < result.vars[j].line

----------------------------------------------------------------------------
(* Vocabulary of the serializer properties *)

asMap(obj) ==
  [k \in {obj[i].key : i \in 1..Len(obj)} |->
     (CHOOSE e \in {obj[i] : i \in 1..Len(obj)} : e.key = k).value]

serialized == pc \in {"scan", "post", "done"} /\ source.mode = "text"
                /\ fnIn # <<>>

(* Keys are valid; values hold no newline and no surrounding white space *)
isRoundTripMap(obj) ==
  \A i \in 1..Len(obj) :
    /\ matchesKeyPattern(obj[i].key)
    /\ isTrimmed(obj[i].value)
    /\ \A p \in 1..Len(obj[i].value) : obj[i].value[p] # "\n"

(* C13: for every map with valid keys whose values hold no newline and no  *)
(* surrounding white space, fromObject (with or without export), parse     *)
(* with the default options and toObject give back the map.                *)
C13_RoundTrip ==
  (pc = "done" /\ fnIn # <<>> /\ isRoundTripMap(fnIn.obj)) =>
    /\ result.ok
    /\ asMap(toObject(result.vars)) = asMap(fnIn.obj)

containsAny(value, chars) == \E p \in 1..Len(value) : value[p] \in chars

RECURSIVE escaped(_, _)
escaped(value, chars) ==
  IF value = <<>> THEN <<>>
  ELSE (IF Head(value) \in chars THEN <<BS, Head(value)>> ELSE <<Head(value)>>)
         \o escaped(Tail(value), chars)

(* The text with one line per entry, a value quoted iff it holds white     *)
(* space, a quote, `$` or `\`, the characters of chars escaped in quotes   *)
RECURSIVE expectedText(_, _, _)
expectedText(obj, includeExport, chars) ==
  IF obj = <<>> THEN <<>>
  ELSE LET e == Head(obj)
           v == IF containsAny(e.value, WhiteSpace \cup {DQ, SQ, "$", BS})
                THEN <<DQ>> \o escaped(e.value, chars) \o <<DQ>>
                ELSE e.value
           line == (IF includeExport THEN exportPrefix ELSE <<>>)
                     \o e.key \o <<"=">> \o v
       IN IF Len(obj) = 1 THEN line
          ELSE line \o <<"\n">>
                 \o expectedText(Tail(obj), includeExport, chars)

(* C14: one line per entry in order joined by newline, `export ` *)
(* when requested, a value in double quotes iff it holds white space, `"`, *)
(* `'`, `$` or `\`, and in the quotes `"` written \" and `\` written \\.   *)
C14_QuotesAndBackslashesEscaped ==
  serialized =>
    fnOut = expectedText(fnIn.obj, fnIn.includeExport, {DQ, BS})

----------------------------------------------------------------------------
(* Vocabulary of the map-mode properties *)

isMap == source.mode = "map"

(* The entries of the source with a valid key and a defined value *)
keptEntries ==
  LET keep(e) == matchesKeyPattern(e.key) /\ e.defined
  IN SelectSeq(source.entries, keep)

(* C15: in map mode parse keeps exactly the entries with a valid key and a *)
(* defined value, in order, each at line 0, and reports no error; the      *)
(* other entries are dropped silently, so without a schema the result is a *)
(* success.                                                                *)
C15_MapKeepsValidDefined ==
  (isMap /\ pc \in {"post", "validate", "done"}) =>
    /\ errors = <<>>
    /\ Len(variables) = Len(keptEntries)
    /\ \A j \in 1..Len(variables) :
         /\ variables[j].key = keptEntries[j].key
         /\ variables[j].line = 0
         /\ ~options.expandVariables =>
              variables[j].value = keptEntries[j].value
    /\ (pc = "done" /\ ~options.schema) =>
         /\ result.ok
         /\ result.vars = variables
         /\ result.errors = <<>>

C15_Witness ==
  /\ isMap
  /\ pc = "done"
  /\ ~options.schema
  /\ result.ok
  /\ Len(source.entries) = 2
  /\ \E i \in 1..2 : ~matchesKeyPattern(source.entries[i].key)
                       /\ source.entries[i].defined
  /\ \E i \in 1..2 : matchesKeyPattern(source.entries[i].key)
                       /\ source.entries[i].defined
  /\ Len(result.vars) = 1
  /\ result.vars[1].line = 0

isReference(v) == isBracedRef(v) \/ isBareRef(v)

(* Line i references a name that only a later line binds *)
isForwardReference(i) ==
  LET line == source.lines[i]
  IN /\ isPlainKeyLine(line)
     /\ isReference(valueText(line))
     /\ ~isBoundBefore(refName(valueText(line)), i)
     /\ \E l \in (i + 1)..Len(source.lines) :
          /\ isPlainKeyLine(source.lines[l])
          /\ keyText(source.lines[l]) = refName(valueText(line))

(* C16: with expandVariables on, in map mode an entry whose value is a     *)
(* reference to the key of a kept entry, wherever that entry stands in the *)
(* iteration order, takes that entry's value in the map; in text mode a    *)
(* reference to a key bound only on a later line gives the empty string.   *)
C16_MapSeesWholeMap ==
  options.expandVariables =>
    /\ (isMap /\ pc \in {"post", "validate", "done"}) =>
         /\ Len(variables) = Len(keptEntries)
         /\ \A j, k \in 1..Len(keptEntries) :
              (/\ isReference(keptEntries[j].value)
               /\ keptEntries[k].key = refName(keptEntries[j].value)) =>
                variables[j].value = keptEntries[k].value
    /\ isText =>
         \A i \in scanned :
           isForwardReference(i) =>
             /\ bindingsAt(i) # {}
             /\ \A j \in bindingsAt(i) : variables[j].value = <<>>

C16_Witness ==
  /\ isMap
  /\ pc = "done"
  /\ options.expandVariables
  /\ source.entries = <<[key |-> kA, defined |-> TRUE, value |-> <<"$","B">>],
                        [key |-> kB, defined |-> TRUE, value |-> <<"$","A">>]>>
  /\ variables = <<[key |-> kA, value |-> <<"$","A">>, line |-> 0],
                   [key |-> kB, value |-> <<"$","B">>, line |-> 0]>>

----------------------------------------------------------------------------
(* Vocabulary of the schema properties *)

(* The decimal digits of a number below one hundred *)
decimal(n) ==
  LET d(k) == SubSeq(<<"0","1","2","3","4","5","6","7","8","9">>, k + 1, k + 1)
  IN IF n < 10 THEN d(n) ELSE d(n \div 10) \o d(n % 10)

segmentText(segment) ==
  IF segment.key.isNumber THEN decimal(segment.key.num) ELSE segment.key.str

(* The segments up to the n-th, a dot between neighbours *)
RECURSIVE dotJoined(_, _)
dotJoined(path, n) ==
  IF n = 0 THEN <<>>
  ELSE IF n = 1 THEN segmentText(path[1])
       ELSE dotJoined(path, n - 1) \o <<".">> \o segmentText(path[n])

adapterReturnedIssues ==
  pc = "done" /\ validated.kind = "result" /\ validated.hasIssues
    /\ validated.issuesDefined

(* C17: when the adapter returns issues, parse fails with one error per    *)
(* issue, in order: line 0, the issue's message, and as content "Path: "   *)
(* followed by the dot-joined segments when the issue has a path, else     *)
(* "Schema validation failed".                                             *)
C17_IssuesBecomeErrors ==
  adapterReturnedIssues =>
    /\ ~result.ok
    /\ Len(result.errors) = Len(validated.issues)
    /\ \A i \in 1..Len(validated.issues) :
         LET issue == validated.issues[i]
         IN /\ result.errors[i].line = 0
            /\ result.errors[i].message = issue.message
            /\ result.errors[i].content =
                 IF issue.hasPath
                 THEN <<"Path: ">> \o dotJoined(issue.path, Len(issue.path))
                 ELSE <<"Schema validation failed">>

C17_Witness ==
  /\ adapterReturnedIssues
  /\ Len(validated.issues) = 2
  /\ validated.issues[1].message = <<"m1">>
  /\ validated.issues[2].message = <<"m2">>
  /\ result.errors[1].content = <<"Schema validation failed">>
  /\ result.errors[2].content = <<"Path: ", "P", ".", "1", "0">>

adapterThrew == pc = "done" /\ validated.kind = "throw"

(* C18 as stated: when the adapter throws or rejects, parse returns a      *)
(* failure with exactly one error: line 0, the failure's message, content  *)
(* "Schema validation error"; validate is not called again.                *)
C18_ThrowKeepsMessage ==
  adapterThrew =>
    /\ ~result.ok
    /\ validateCalls = 1
    /\ result.errors = <<[line |-> 0, message |-> validated.message,
                          content |-> <<"Schema validation error">>]>>

(* C18 amended: as stated, but the message is the failure's message only   *)
(* when the failure is an Error; for any other thrown value it is          *)
(* "Schema validation failed".                                             *)
C18_ThrowReported ==
  adapterThrew =>
    /\ ~result.ok
    /\ validateCalls = 1
    /\ result.errors =
         <<[line |-> 0,
            message |-> IF validated.isError THEN validated.message
                        ELSE <<"Schema validation failed">>,
            content |-> <<"Schema validation error">>]>>

C18_Witness ==
  /\ adapterThrew
  /\ ~validated.isError
  /\ validated.message = <<"oops">>
  /\ result.errors[1].message = <<"Schema validation failed">>
  /\ result.errors[1].content = <<"Schema validation error">>

(* C19: with a schema and no error from the lines, validate receives the   *)
(* last-wins map of the bindings; when the adapter succeeds, parse         *)
(* succeeds with the adapter's output as data and the whole ordered        *)
(* binding list as vars; without a schema data is the last-wins map.       *)
C19_ValidateGetsResolvedMap ==
  /\ (pc \in {"validate", "done"} /\ validateCalls = 1) =>
       /\ errors = <<>>
       /\ isLastWinsMap(validateArg, variables)
  /\ (pc = "done" /\ validated.kind = "result" /\ ~validated.hasIssues) =>
       /\ result.ok
       /\ result.data = validated.value
       /\ result.vars = variables
  /\ (pc = "done" /\ ~options.schema /\ errors = <<>>) =>
       /\ result.ok
       /\ isLastWinsMap(result.data, variables)
       /\ result.vars = variables

----------------------------------------------------------------------------
(* C20: a line that is empty or white space only yields neither a binding  *)
(* nor an error whatever allowEmpty is, and with allowComments a line      *)
(* whose trimmed form starts with `#` yields nothing either; a text of     *)
(* such lines only ends with no binding and no error, as a success when it *)
(* is not handed to a schema, also with allowEmpty off.                    *)
yieldsNothing(line) == isBlank(line) \/ isComment(line, options)

C20_BlankAndCommentYieldNothing ==
  isText =>
    /\ \A i \in scanned :
         yieldsNothing(source.lines[i]) =>
           bindingsAt(i) = {} /\ errorsAt(i) = {}
    /\ (pc = "done"
        /\ \A i \in 1..Len(source.lines) : yieldsNothing(source.lines[i])) =>
         /\ variables = <<>>
         /\ errors = <<>>
         /\ ~options.schema =>
              /\ result.ok
              /\ result.vars = <<>>
              /\ result.data = <<>>
              /\ result.errors = <<>>

C20_Witness ==
  /\ isText
  /\ pc = "done"
  /\ ~options.allowEmpty
  /\ options.allowComments
  /\ ~options.schema
  /\ source.lines = << <<" ">>, <<"#","c">> >>
  /\ result.ok
  /\ result.vars = <<>>
  /\ result.errors = <<>>

----------------------------------------------------------------------------
(* Vocabulary of the classifier properties *)

textLines == split(fnIn, "\n")

(* Lines that are neither blank nor `#`-prefixed once trimmed *)
countedLines ==
  {i \in 1..Len(textLines) :
     ~isBlank(textLines[i]) /\ core(textLines[i])[1] # "#"}

(* s without a leading `export` and the white space after it *)
afterExport(s) ==
  IF Len(s) >= 7 /\ SubSeq(s, 1, 6) = <<"e","x","p","o","r","t">>
     /\ s[7] \in WhiteSpace
  THEN core(SubSeq(s, 7, Len(s)))
  ELSE s

(* An `=` preceded by a valid identifier, an `export` prefix set aside *)
looksAssigned(line) ==
  LET b == afterExport(core(line))
  IN hasEquals(b) /\ matchesKeyPattern(keyText(b))

assignedLines == {i \in countedLines : looksAssigned(textLines[i])}

(* C21: isEnvFile(text) is true iff among the lines neither blank nor      *)
(* `#`-prefixed there is at least one and at least half of them have,      *)
(* after an optional export prefix, an `=` preceded by a valid identifier; *)
(* empty, all-blank and all-comment texts give false.                      *)
C21_AtLeastHalfAssignments ==
  pc = "return" =>
    (fnOut <=> (/\ countedLines # {}
                /\ 2 * Cardinality(assignedLines) >= Cardinality(countedLines)))

C21_Witness ==
  /\ pc = "return"
  /\ Cardinality(countedLines) = 2
  /\ Cardinality(assignedLines) = 1
  /\ Len(textLines) = 3
  /\ fnOut

----------------------------------------------------------------------------
(* C22: parse never modifies its map source: no step of parse, whatever    *)
(* the options and whatever the outcome, changes the keys or values of the *)
(* source, the dropped entries and the raw values of the expanded ones     *)
(* included.                                                               *)
C22_MapSourceUntouched == [][isMap => source' = source]_vars

(* parse has returned, having dropped an entry and expanded another *)
C22_Witness ==
  /\ isMap
  /\ pc = "done"
  /\ options.expandVariables
  /\ source.entries =
       <<[key |-> kB, defined |-> TRUE, value |-> <<"$","{","A","}">>],
         [key |-> kA, defined |-> FALSE, value |-> <<"a">>],
         [key |-> kC, defined |-> TRUE, value |-> <<"$","{","B","}">>]>>
  /\ variables =
       <<[key |-> kB, value |-> <<>>, line |-> 0],
         [key |-> kC, value |-> <<"$","{","A","}">>, line |-> 0]>>

----------------------------------------------------------------------------
(* Vocabulary of value normalization *)

(* The raw value with its outer quotes removed, as C10 describes *)
unquotedText(raw) ==
  LET t == core(raw)
  IN IF t # <<>> /\ t[1] = DQ /\ t[Len(t)] = DQ
     THEN unescapeOnePass(betweenOuterPair(t))
     ELSE IF t # <<>> /\ t[1] = SQ /\ t[Len(t)] = SQ
          THEN betweenOuterPair(t)
          ELSE raw

(* Unquoted first, trimmed second *)
unquotedThenTrimmed(raw, opts) ==
  IF opts.trimValues THEN core(unquotedText(raw)) ELSE unquotedText(raw)

hasDollar(v) == \E p \in 1..Len(v) : v[p] = "$"

----------------------------------------------------------------------------
(* The trimmed value opens with a quote character and has no separate      *)
(* closing quote of the same kind                                          *)
opensWithoutClosing(raw) ==
  LET t == core(raw)
  IN /\ t # <<>>
     /\ t[1] \in {DQ, SQ}
     /\ ~(Len(t) >= 2 /\ t[Len(t)] = t[1])

(* C24: a value whose trimmed form begins with a quote character but has   *)
(* no separate matching closing quote (another kind at the end, no quote   *)
(* at the end, or the quote character alone) is returned by unquoting      *)
(* unchanged.                                                              *)
C24_UnclosedQuoteUnchanged ==
  (pc = "return" /\ opensWithoutClosing(fnIn)) => fnOut = fnIn

----------------------------------------------------------------------------
(* One simultaneous pass from the left: at each place \" gives ", \\ gives *)
(* \, any other character is copied                                        *)
RECURSIVE simultaneousPass(_)
simultaneousPass(s) ==
  IF s = <<>> THEN <<>>
  ELSE IF Len(s) >= 2 /\ s[1] = BS /\ s[2] = DQ
       THEN <<DQ>> \o simultaneousPass(SubSeq(s, 3, Len(s)))
       ELSE IF Len(s) >= 2 /\ s[1] = BS /\ s[2] = BS
            THEN <<BS>> \o simultaneousPass(SubSeq(s, 3, Len(s)))
            ELSE <<s[1]>> \o simultaneousPass(Tail(s))

(* C25: for every double-quoted content over backslashes, double quotes    *)
(* and ordinary characters, unescaping in two passes (every \" to ", then  *)
(* every \\ to \) gives what one simultaneous left-to-right pass gives.    *)
C25_TwoPassesAsOnePass ==
  pc = "return" => fnOut = simultaneousPass(fnIn)

C25_Witness ==
  /\ pc = "return"
  /\ fnIn = <<BS, BS, DQ, BS, BS, BS>>
  /\ fnOut = <<BS, DQ, BS, BS>>

----------------------------------------------------------------------------
(* Vocabulary of bare references *)

(* v is `$` and an identifier start *)
opensBareRef(v) ==
  Len(v) >= 2 /\ v[1] = "$" /\ v[2] \in Upper \cup Lower \cup {"_"}

(* Where the shortest identifier prefix followed by a character outside    *)
(* [A-Za-z0-9], or by the end of the value, ends                           *)
shortestNameEnd(v) ==
  CHOOSE n \in 2..Len(v) :
    /\ (n = Len(v) \/ v[n + 1] \notin Upper \cup Lower \cup Digit)
    /\ \A m \in 2..(n - 1) : v[m + 1] \in Upper \cup Lower \cup Digit

bareName(v) == SubSeq(v, 2, shortestNameEnd(v))
afterBareName(v) == SubSeq(v, shortestNameEnd(v) + 1, Len(v))

----------------------------------------------------------------------------
(* Vocabulary of the tokens of a value *)

dollars(v) == {p \in 1..Len(v) : v[p] = "$"}

(* v starts with ${NAME}, NAME not empty and without `}` *)
opensBracedRef(v) ==
  /\ Len(v) >= 4
  /\ v[1] = "$" /\ v[2] = "{" /\ v[3] # "}"
  /\ \E p \in 4..Len(v) : v[p] = "}"

bracedEnd(v) ==
  CHOOSE p \in 4..Len(v) : v[p] = "}" /\ \A q \in 3..(p - 1) : v[q] # "}"

(* The token at the start of v: how long it is and the name it refers to *)
tokenEnd(v) ==
  IF opensBracedRef(v) THEN bracedEnd(v)
  ELSE IF opensBareRef(v) THEN shortestNameEnd(v) ELSE 0

tokenName(v) ==
  IF opensBracedRef(v) THEN SubSeq(v, 3, bracedEnd(v) - 1) ELSE bareName(v)

answer(lookup, name) ==
  IF name \in DOMAIN lookup THEN lookup[name] ELSE <<>>

(* C27: expandValue is one pass from the left over tokens that do not      *)
(* overlap: a value with a single `$` is the text before the token, what   *)
(* the lookup answers for the token's name taken literally (also when the  *)
(* answer reads as ${X} or $X), and the text after the token; a `$` that   *)
(* starts no token, and every character outside a token, is copied; two    *)
(* adjacent tokens are replaced one after the other.                       *)
C27_SinglePassLiteralSubstitution ==
  pc = "return" =>
    LET v == fnIn.value
    IN /\ dollars(v) = {} => fnOut = v
       /\ Cardinality(dollars(v)) = 1 =>
            LET d == CHOOSE p \in dollars(v) : TRUE
                pre == SubSeq(v, 1, d - 1)
                rest == SubSeq(v, d, Len(v))
            IN fnOut =
                 IF tokenEnd(rest) = 0 THEN v
                 ELSE pre \o answer(fnIn.lookup, tokenName(rest))
                          \o SubSeq(rest, tokenEnd(rest) + 1, Len(rest))
       /\ (Cardinality(dollars(v)) = 2 /\ v[1] = "$" /\ tokenEnd(v) > 0
           /\ tokenEnd(v) < Len(v) /\ v[tokenEnd(v) + 1] = "$"
           /\ tokenEnd(SubSeq(v, tokenEnd(v) + 1, Len(v)))
                = Len(v) - tokenEnd(v)) =>
            fnOut = answer(fnIn.lookup, tokenName(v))
                      \o answer(fnIn.lookup,
                                tokenName(SubSeq(v, tokenEnd(v) + 1, Len(v))))

C27_Witness ==
  /\ pc = "return"
  /\ fnIn.value = <<"_", "$", "{", "A", "}">>
  /\ kB \in DOMAIN fnIn.lookup
  /\ kA \in DOMAIN fnIn.lookup
  /\ fnIn.lookup[kA] = <<"$", "{", "B", "}">>
  /\ fnOut = <<"_", "$", "{", "B", "}">>

----------------------------------------------------------------------------
(* Vocabulary of the disabled options *)

opensWithHash(line) == ~isBlank(line) /\ core(line)[1] = "#"

(* export KEY=... with a valid KEY *)
isExportAssignment(line) ==
  LET c == core(line)
  IN /\ Len(c) > 7
     /\ SubSeq(c, 1, 7) = <<"e","x","p","o","r","t"," ">>
     /\ isPlainKeyLine(SubSeq(c, 8, Len(c)))

oneErrorAt(i, message) ==
  /\ bindingsAt(i) = {}
  /\ Cardinality(errorsAt(i)) = 1
  /\ \A j \in errorsAt(i) :
       errors[j] = [line |-> i, message |-> message,
                    content |-> source.lines[i]]

(* C28: with allowComments off a `#`-prefixed line is processed as any     *)
(* other line (without `=` it yields exactly one "Missing equals sign"     *)
(* error when allowEmpty is off and nothing when it is on; with `=` its    *)
(* key is invalid), and with allowExport off the export prefix stays, so   *)
(* export KEY=value yields exactly one invalid-key error and no binding.   *)
C28_DisabledOptionsAreOrdinaryLines ==
  isText =>
    \A i \in scanned :
      LET line == source.lines[i]
          c == core(line)
      IN /\ (~options.allowComments /\ opensWithHash(line)) =>
              IF hasEquals(c)
              THEN oneErrorAt(i, <<"Invalid environment variable key: ">>
                                   \o keyText(c))
              ELSE IF options.allowEmpty
                   THEN bindingsAt(i) = {} /\ errorsAt(i) = {}
                   ELSE oneErrorAt(i, <<"Missing equals sign">>)
         /\ (~options.allowExport /\ isExportAssignment(line)) =>
              oneErrorAt(i, <<"Invalid environment variable key: ">>
                              \o keyText(c))

C28_Witness ==
  /\ isText
  /\ pc = "done"
  /\ ~options.allowComments
  /\ ~options.allowEmpty
  /\ ~options.allowExport
  /\ source.lines = << <<"#","c">>, exportPrefix \o <<"B","=","x">> >>
  /\ result.errors =
       << [line |-> 1, message |-> <<"Missing equals sign">>,
           content |-> <<"#","c">>],
          [line |-> 2,
           message |-> <<"Invalid environment variable key: ",
                         "e","x","p","o","r","t"," ","B">>,
           content |-> exportPrefix \o <<"B","=","x">>] >>

----------------------------------------------------------------------------
(* Vocabulary of expansion in map mode *)

(* The value the source gives for name among its kept entries, else empty *)
rawValueOf(name) ==
  IF \E k \in 1..Len(keptEntries) : keptEntries[k].key = name
  THEN keptEntries[CHOOSE k \in 1..Len(keptEntries) :
                     keptEntries[k].key = name].value
  ELSE <<>>

(* C29: in map mode with expandVariables on, each binding holds its        *)
(* entry's source value expanded with lookups answered by the kept entries *)
(* of the source at their raw values: a value without `$` stays, a value   *)
(* that is one reference becomes the referent's raw source value (empty    *)
(* when the source keeps no such key), so a chain is resolved one link     *)
(* only, a self-reference gives the entry's own raw value, and the value   *)
(* for a key depends on the set of entries, not on their order.            *)
C29_MapExpandsAgainstRawValues ==
  (isMap /\ options.expandVariables /\ pc \in {"post", "validate", "done"}) =>
    /\ Len(variables) = Len(keptEntries)
    /\ \A j \in 1..Len(keptEntries) :
         LET v == keptEntries[j].value
         IN /\ variables[j].key = keptEntries[j].key
            /\ ~hasDollar(v) => variables[j].value = v
            /\ isReference(v) => variables[j].value = rawValueOf(refName(v))

C29_Witness ==
  /\ isMap
  /\ pc = "done"
  /\ options.expandVariables
  /\ source.entries =
       <<[key |-> kC, defined |-> TRUE, value |-> <<"$","{","B","}">>],
         [key |-> kA, defined |-> TRUE, value |-> <<"a">>],
         [key |-> kB, defined |-> TRUE, value |-> <<"$","{","A","}">>]>>
  /\ variables =
       <<[key |-> kC, value |-> <<"$","{","A","}">>, line |-> 0],
         [key |-> kA, value |-> <<"a">>, line |-> 0],
         [key |-> kB, value |-> <<"a">>, line |-> 0]>>

----------------------------------------------------------------------------
(* C30: every line that is neither blank nor a comment and that isEnvFile  *)
(* counts as a valid assignment yields, when the text is parsed with the   *)
(* default options, a binding: no error and no silent drop.                *)
C30_ClassifierAgreesWithParser ==
  isText =>
    \A i \in scanned :
      LET line == source.lines[i]
      IN (~isBlank(line) /\ ~opensWithHash(line)
            /\ isLikeEnvVar(trim(line))) =>
           /\ Cardinality(bindingsAt(i)) = 1
           /\ errorsAt(i) = {}

====
